---------------------------- MODULE Spec2Model ----------------------------
(***************************************************************************)
(* Model of src/main.py: the score-rate widget plugin.                     *)
(*                                                                         *)
(*  - Plugin.fetch_and_update_data : GET, ID extraction, POST, fallback    *)
(*  - Plugin.update_widget_content : store, report, widget clear/add       *)
(*  - Plugin.auto_scroll           : the 30 ms timer slot                  *)
(*  - auto_update                  : the polling thread's loop             *)
(*  - Plugin.execute               : the host's entry point                *)
(*                                                                         *)
(* JSON scalars are tagged records so that Python's None, 7 and "7" stay   *)
(* distinct values.  TLA+ strings are ASCII: the Chinese literals of the   *)
(* report are written in English, with the original beside them.           *)
(***************************************************************************)
EXTENDS Integers, Sequences, FiniteSets, TLC

VARIABLES
    pc,              \* per thread: its position in auto_update / execute
    sent,            \* per thread: the requests sent by the current fetch
    response_get,    \* per thread: local response_get (status, body) or NoResp
    payload,         \* per thread: local payload of the POST
    data,            \* per thread: local data of update_widget_content
    outcome,         \* per thread: how its last fetch ended, "none" if it
                     \* has not ended (or the method was left since)
    content,         \* per thread: local content (the report)
    previous_data,   \* self.previous_data
    test_widget,     \* self.test_widget
    contentLayout,   \* the widget's contentLayout: its scroll areas
    scroll_position, \* self.scroll_position
    max_value,       \* the maximum() auto_scroll read last (0 before it does)
    lastSuccess,     \* history: response of the most recent successful fetch
    last200Parsed,   \* history: the most recent fetch with 200/200 parsed
    slept,           \* history: the argument of the last time.sleep
    input,           \* the document Extract / Format is applied to
    output,          \* its result
    phase            \* "in" before the function is applied, "out" after

vars == <<pc, sent, response_get, payload, data, outcome, content,
          previous_data, test_widget, contentLayout, scroll_position,
          max_value, lastSuccess, last200Parsed, slept, input, output, phase>>

-----------------------------------------------------------------------------
(* Python / JSON values *)

None == [t |-> "null"]
IntV(n) == [t |-> "int", v |-> n]
StrV(s) == [t |-> "str", v |-> s]

Digit == <<"0", "1", "2", "3", "4", "5", "6", "7", "8", "9">>

RECURSIVE DecStr(_)
DecStr(n) ==
    IF n < 10 THEN Digit[n + 1]
    ELSE DecStr(n \div 10) \o Digit[(n % 10) + 1]

\* str(x) and the f-string conversion "{x}"
Str(x) ==
    CASE x.t = "null" -> "None"
      [] x.t = "int"  -> IF x.v < 0 THEN "-" \o DecStr(-x.v) ELSE DecStr(x.v)
      [] x.t = "str"  -> x.v

\* dict.get(key, default)
Get(d, key, default) == IF key \in DOMAIN d THEN d[key] ELSE default

\* mutant: "is not None" in place of truthiness
Truthy_IsNotNone(x) == x # None

\* bool(x) of a parsed JSON document: None and the empty dict are falsy
Truthy(x) == x # None /\ DOMAIN x # {}

-----------------------------------------------------------------------------
(* ID extraction, main.py 118-124 *)

RECURSIVE TemplateIdsOfHomeworks(_)
TemplateIdsOfHomeworks(hs) ==
    IF hs = <<>> THEN <<>>
    ELSE (IF Head(hs).templateId # None
          THEN <<Str(Head(hs).templateId)>> ELSE <<>>)
         \o TemplateIdsOfHomeworks(Tail(hs))

RECURSIVE template_ids(_)
template_ids(courses) ==
    IF courses = <<>> THEN <<>>
    ELSE TemplateIdsOfHomeworks(Head(courses).homeworkVOList)
         \o template_ids(Tail(courses))

\* mutant: the filter of template_ids copied into homework_ids
RECURSIVE HomeworkIdsOfHomeworks_SkipNull(_)
HomeworkIdsOfHomeworks_SkipNull(hs) ==
    IF hs = <<>> THEN <<>>
    ELSE (IF Head(hs).templateId # None THEN Head(hs).homeworkIds ELSE <<>>)
         \o HomeworkIdsOfHomeworks_SkipNull(Tail(hs))

RECURSIVE HomeworkIdsOfHomeworks(_)
HomeworkIdsOfHomeworks(hs) ==
    IF hs = <<>> THEN <<>>
    ELSE Head(hs).homeworkIds \o HomeworkIdsOfHomeworks(Tail(hs))

RECURSIVE homework_ids(_)
homework_ids(courses) ==
    IF courses = <<>> THEN <<>>
    ELSE HomeworkIdsOfHomeworks(Head(courses).homeworkVOList)
         \o homework_ids(Tail(courses))

class_ids(classes) == [i \in 1..Len(classes) |-> classes[i].classId]

\* data['data'][...] raises when a key is missing
GetBodyOk(body) ==
    /\ body # None
    /\ "data" \in DOMAIN body
    /\ {"homeworkCourseVOList", "classVOList"} \subseteq DOMAIN body.data

\* the payload of lines 127-135
Payload(body) ==
    [schoolId       |-> "123204",
     gradeId        |-> "10024",
     templateIds    |-> template_ids(body.data.homeworkCourseVOList),
     homeworkIds    |-> homework_ids(body.data.homeworkCourseVOList),
     schoolYearName |-> "2024-2025",
     isHistory      |-> FALSE,
     classIds       |-> class_ids(body.data.classVOList)]

-----------------------------------------------------------------------------
(* The report, main.py 162-213.  content is the sequence of its lines; a   *)
(* line is the sequence of the pieces its f-string joins.                  *)

GRADE_HEADER == "[Grade]"                        \* 【全年级】
FULL_RATE == "Overall score rate: "              \* 全科得分率：
SUBJECT_RATES == "Per-subject score rates:"      \* 单科得分率：
NO_GRADE_DATA == "No whole-grade data found!"    \* 未找到全年级的数据！
CLASSES_HEADER == "[Classes]"                    \* 【各班级】
CLASS_LABEL == "Class: "                         \* 班级：
UNKNOWN_SUBJECT == "Unknown subject("            \* 未知科目(
COLON == ": "                                    \* ：
INDENT == "   "
BLANK == <<>>                                    \* the empty line of "\n"

\* {course["courseId"]: course["courseName"] for course in course_list}:
\* a later entry of the same courseId replaces an earlier one
course_mapping(course_list) ==
    [id \in {course_list[i].courseId : i \in 1..Len(course_list)} |->
        LET last == CHOOSE i \in 1..Len(course_list) :
                        /\ course_list[i].courseId = id
                        /\ \A j \in (i + 1)..Len(course_list) :
                               course_list[j].courseId # id
        IN  course_list[last].courseName]

RECURSIVE get_score_rate(_, _)
get_score_rate(course_score_rate_list, target_course_id) ==
    IF course_score_rate_list = <<>> THEN None
    ELSE IF Get(Head(course_score_rate_list), "courseId", None) = target_course_id
         THEN Get(Head(course_score_rate_list), "scoreRate", None)
         ELSE get_score_rate(Tail(course_score_rate_list), target_course_id)

\* f"{rate}%" if rate != "-" else rate
RateStr(rate) == IF rate # StrV("-") THEN Str(rate) \o "%" ELSE Str(rate)

\* course_mapping.get(course_id, f"未知科目({course_id})")
CourseName(mapping, course_id) ==
    IF course_id \in DOMAIN mapping THEN Str(mapping[course_id])
    ELSE UNKNOWN_SUBJECT \o Str(course_id) \o ")"

\* the loops of lines 183-190 (prefix = <<>>) and 205-212 (prefix = <<INDENT>>)
RECURSIVE SubjectLines(_, _, _)
SubjectLines(records, mapping, prefix) ==
    IF records = <<>> THEN <<>>
    ELSE LET record == Head(records)
             course_id == Get(record, "courseId", None)
             rest == SubjectLines(Tail(records), mapping, prefix)
         IN  IF course_id = StrV("-1") THEN rest
             ELSE <<prefix \o <<CourseName(mapping, course_id), COLON,
                                RateStr(Get(record, "scoreRate", None))>>>>
                  \o rest

\* next((item for item in ... if item.get("classId") == "-1"), None)
RECURSIVE overall_data(_)
overall_data(score_rate_list) ==
    IF score_rate_list = <<>> THEN None
    ELSE IF Get(Head(score_rate_list), "classId", None) = StrV("-1")
         THEN Head(score_rate_list)
         ELSE overall_data(Tail(score_rate_list))

\* lines 177-193
GradeSection(overall, mapping) ==
    IF Truthy(overall)
    THEN <<<<GRADE_HEADER>>,
           <<FULL_RATE,
             RateStr(get_score_rate(Get(overall, "courseScoreRate", <<>>),
                                    StrV("-1")))>>,
           <<SUBJECT_RATES>>>>
         \o SubjectLines(Get(overall, "courseScoreRate", <<>>), mapping, <<>>)
         \o <<BLANK>>
    ELSE <<<<NO_GRADE_DATA>>>>

\* lines 200-213, one class
ClassBlock(class_data, mapping) ==
    <<<<CLASS_LABEL, Str(Get(class_data, "className", None))>>,
      <<FULL_RATE,
        RateStr(get_score_rate(Get(class_data, "courseScoreRate", <<>>),
                               StrV("-1")))>>,
      <<SUBJECT_RATES>>>>
    \o SubjectLines(Get(class_data, "courseScoreRate", <<>>), mapping,
                    <<INDENT>>)
    \o <<BLANK>>

\* mutant: the classId "-1" entry is not skipped
RECURSIVE ClassBlocks_NoSkip(_, _)
ClassBlocks_NoSkip(score_rate_list, mapping) ==
    IF score_rate_list = <<>> THEN <<>>
    ELSE ClassBlock(Head(score_rate_list), mapping)
         \o ClassBlocks_NoSkip(Tail(score_rate_list), mapping)

\* lines 197-213
RECURSIVE ClassBlocks(_, _)
ClassBlocks(score_rate_list, mapping) ==
    IF score_rate_list = <<>> THEN <<>>
    ELSE (IF Get(Head(score_rate_list), "classId", None) = StrV("-1")
          THEN <<>>
          ELSE ClassBlock(Head(score_rate_list), mapping))
         \o ClassBlocks(Tail(score_rate_list), mapping)

\* data["data"]["courseVOList"], data["data"]["scoreRateVOList"] raise when
\* data is None or a key is missing
ReportOk(d) ==
    /\ d # None
    /\ "data" \in DOMAIN d
    /\ {"courseVOList", "scoreRateVOList"} \subseteq DOMAIN d.data

\* the content of lines 172-213
BuildContent(d) ==
    LET mapping == course_mapping(d.data.courseVOList)
    IN  GradeSection(overall_data(d.data.scoreRateVOList), mapping)
        \o <<<<CLASSES_HEADER>>>>
        \o ClassBlocks(d.data.scoreRateVOList, mapping)

-----------------------------------------------------------------------------
(* What the server and the host may answer *)

MaxMaximum == 1      \* largest maximum() of a scroll bar
SLEEP_SECONDS == 1800

Threads == {"poll", "host"}   \* the auto_update thread; the caller of execute

Unparsable == [t |-> "unparsable"]   \* a body on which .json() raises
EmptyDict == <<>>                    \* the JSON document {}
NoValue == [t |-> "unbound"]         \* a local that is not bound
NoContent == <<>>                    \* content = "", line 173
Never == [t |-> "never"]

GetBodyA ==
    [data |->
      [homeworkCourseVOList |->
         <<[homeworkVOList |->
              <<[templateId |-> IntV(12), homeworkIds |-> <<"h1", "h2">>],
                [templateId |-> None, homeworkIds |-> <<"h3">>]>>]>>,
       classVOList |-> <<[classId |-> "c2"], [classId |-> "c1"]>>]]

GetBodyB ==
    [data |->
      [homeworkCourseVOList |->
         <<[homeworkVOList |-> <<>>],
           [homeworkVOList |->
              <<[templateId |-> StrV("t7"), homeworkIds |-> <<"h9">>]>>]>>,
       classVOList |-> <<[classId |-> "c1"]>>]]

ErrorBody == [code |-> IntV(401)]    \* a JSON document without "data"

GetBodies == {GetBodyA, GetBodyB, ErrorBody, Unparsable}

Courses == <<[courseId |-> StrV("m"), courseName |-> StrV("Math")]>>

RatesA ==
    <<[courseId |-> StrV("-1"), scoreRate |-> StrV("81.5")],
      [courseId |-> StrV("m"), scoreRate |-> StrV("-")]>>

RatesB ==
    <<[courseId |-> StrV("e"), scoreRate |-> IntV(70)],
      [courseId |-> StrV("-1"), scoreRate |-> StrV("-")]>>

PostBodyA ==
    [data |->
      [courseVOList |-> Courses,
       scoreRateVOList |->
         <<[classId |-> StrV("1"), className |-> StrV("Class 1"),
            courseScoreRate |-> RatesB],
           [classId |-> StrV("-1"), className |-> StrV("Grade"),
            courseScoreRate |-> RatesA]>>]]

PostBodyB ==
    [data |->
      [courseVOList |-> Courses,
       scoreRateVOList |->
         <<[classId |-> StrV("2"), className |-> StrV("Class 2"),
            courseScoreRate |-> RatesA]>>]]

PostBodies == {PostBodyA, PostBodyB, EmptyDict, Unparsable}

\* requests.get / requests.post: an exception, or a status and a body
Responses(bodies) ==
    {[raised |-> TRUE, status_code |-> 0, body |-> Unparsable]}
    \cup [raised : {FALSE}, status_code : {200, 404}, body : bodies]

NoResponse == [raised |-> FALSE, status_code |-> 0, body |-> NoValue]

UpdatePcs == {"get_wait", "post_wait", "store", "report", "layout", "add"}

InUpdate(t) == pc[t] \in UpdatePcs

-----------------------------------------------------------------------------
(* The state after Plugin.__init__: the timer runs, previous_data is None, *)
(* the polling thread is started and about to make its first attempt, the  *)
(* host has not called execute.  test_widget is not assigned by __init__.  *)

pureVars == <<input, output, phase>>
scrollVars == <<scroll_position, max_value>>

MainInit ==
    /\ pc = [t \in Threads |-> IF t = "poll" THEN "call" ELSE "idle"]
    /\ sent = [t \in Threads |-> <<>>]
    /\ response_get = [t \in Threads |-> NoResponse]
    /\ payload = [t \in Threads |-> NoValue]
    /\ data = [t \in Threads |-> NoValue]
    /\ outcome = [t \in Threads |-> "none"]
    /\ content = [t \in Threads |-> NoContent]
    /\ previous_data = None
    /\ test_widget = "unset"
    /\ contentLayout = <<>>
    /\ scroll_position = 0
    /\ max_value = 0
    /\ lastSuccess = Never
    /\ last200Parsed = TRUE
    /\ slept = 0

Init ==
    /\ MainInit
    /\ input = NoValue
    /\ output = NoValue
    /\ phase = "unused"

-----------------------------------------------------------------------------
(* fetch_and_update_data, main.py 92-155 *)

\* mutant: auto_update without its try/except: the exception ends the thread
AfterException_Uncaught(t) == IF t = "poll" THEN "dead" ELSE "idle"

\* where a thread is once update_widget_content has raised: auto_update
\* catches and logs it (302-303) and goes on to time.sleep; execute lets it
\* propagate to the host
AfterException(t) == IF t = "poll" THEN "sleep" ELSE "idle"

\* where a thread is once update_widget_content has returned
AfterReturn(t) == IF t = "poll" THEN "sleep" ELSE "idle"

\* time.sleep(1800), line 304, entered by the polling thread only
Slept(t) == IF t = "poll" THEN SLEEP_SECONDS ELSE slept

\* update_widget_content is left: its locals are gone
Leave(t, next, result) ==
    /\ pc' = [pc EXCEPT ![t] = next]
    /\ slept' = Slept(t)
    /\ outcome' = [outcome EXCEPT ![t] = result]
    /\ response_get' = [response_get EXCEPT ![t] = NoResponse]
    /\ payload' = [payload EXCEPT ![t] = NoValue]
    /\ data' = [data EXCEPT ![t] = NoValue]
    /\ content' = [content EXCEPT ![t] = NoContent]

\* lines 106-110: requests.get is called
StartFetch(t) ==
    /\ pc' = [pc EXCEPT ![t] = "get_wait"]
    /\ sent' = [sent EXCEPT ![t] = <<"GET">>]
    /\ outcome' = [outcome EXCEPT ![t] = "none"]
    /\ UNCHANGED <<response_get, payload, data, content, previous_data,
                   test_widget, contentLayout, scrollVars, lastSuccess,
                   last200Parsed, slept, pureVars>>

\* mutant: the except clause drops the stored result before it raises
FetchFailed_DropsCache(t) ==
    /\ sent' = [sent EXCEPT ![t] = <<>>]
    /\ IF Truthy(previous_data)
       THEN /\ pc' = [pc EXCEPT ![t] = "store"]
            /\ data' = [data EXCEPT ![t] = previous_data]
            /\ outcome' = [outcome EXCEPT ![t] = "fallback"]
            /\ response_get' = [response_get EXCEPT ![t] = NoResponse]
            /\ payload' = [payload EXCEPT ![t] = NoValue]
            /\ UNCHANGED <<content, slept, previous_data>>
       ELSE /\ Leave(t, AfterException(t), "raised")
            /\ previous_data' = None
    /\ UNCHANGED <<test_widget, contentLayout, scrollVars, pureVars>>

\* lines 149-155: the except clause
FetchFailed(t) ==
    /\ sent' = [sent EXCEPT ![t] = <<>>]
    /\ IF Truthy(previous_data)
       THEN /\ pc' = [pc EXCEPT ![t] = "store"]
            /\ data' = [data EXCEPT ![t] = previous_data]
            /\ outcome' = [outcome EXCEPT ![t] = "fallback"]
            /\ response_get' = [response_get EXCEPT ![t] = NoResponse]
            /\ payload' = [payload EXCEPT ![t] = NoValue]
            /\ UNCHANGED <<content, slept>>
       ELSE Leave(t, AfterException(t), "raised")
    /\ UNCHANGED <<previous_data, test_widget, contentLayout,
                   scrollVars, pureVars>>

\* mutant: the status of the GET is not checked
GetSucceeded_NoStatusCheck(r) ==
    /\ ~r.raised
    /\ r.body # Unparsable
    /\ GetBodyOk(r.body)

\* lines 113-124: the status check, .json() and the three comprehensions
GetSucceeded(r) ==
    /\ ~r.raised
    /\ r.status_code = 200
    /\ r.body # Unparsable
    /\ GetBodyOk(r.body)

\* lines 127-142: the payload is built and requests.post is called
SendPost(t, r) ==
    /\ pc' = [pc EXCEPT ![t] = "post_wait"]
    /\ response_get' = [response_get EXCEPT ![t] = r]
    /\ payload' = [payload EXCEPT ![t] = Payload(r.body)]
    /\ sent' = [sent EXCEPT ![t] = Append(@, "POST")]
    /\ UNCHANGED <<data, outcome, content, previous_data, test_widget,
                   contentLayout, scrollVars, slept, pureVars>>

\* requests.get returns or raises
GetReturns(t) ==
    /\ pc[t] = "get_wait"
    /\ \E r \in Responses(GetBodies) :
          IF GetSucceeded(r) THEN SendPost(t, r)
          ELSE FetchFailed(t)
    /\ UNCHANGED <<lastSuccess, last200Parsed>>

\* lines 144-147
PostSucceeded(r) ==
    /\ ~r.raised
    /\ r.status_code = 200
    /\ r.body # Unparsable

\* line 147: return response_post.json()
ReturnData(t, r) ==
    /\ pc' = [pc EXCEPT ![t] = "store"]
    /\ data' = [data EXCEPT ![t] = r.body]
    /\ outcome' = [outcome EXCEPT ![t] = "ok"]
    /\ sent' = [sent EXCEPT ![t] = <<>>]
    /\ response_get' = [response_get EXCEPT ![t] = NoResponse]
    /\ payload' = [payload EXCEPT ![t] = NoValue]
    /\ UNCHANGED <<content, previous_data, test_widget, contentLayout,
                   scrollVars, slept, pureVars>>

\* requests.post returns or raises
PostReturns(t) ==
    /\ pc[t] = "post_wait"
    /\ \E r \in Responses(PostBodies) :
          /\ last200Parsed' = IF ~r.raised /\ r.status_code = 200
                              THEN r.body # Unparsable ELSE last200Parsed
          /\ lastSuccess' = IF PostSucceeded(r) THEN r.body ELSE lastSuccess
          /\ IF PostSucceeded(r) THEN ReturnData(t, r)
             ELSE FetchFailed(t)

-----------------------------------------------------------------------------
(* update_widget_content, main.py 157-236 *)

\* mutant: only a fresh response is kept, a fallback clears the stored one
Store_OnlyFresh(t) ==
    /\ pc[t] = "store"
    /\ previous_data' = IF outcome[t] = "ok" THEN data[t] ELSE None
    /\ pc' = [pc EXCEPT ![t] = "report"]
    /\ UNCHANGED <<sent, response_get, payload, data, outcome, content,
                   test_widget, contentLayout, scrollVars, lastSuccess,
                   last200Parsed, slept, pureVars>>

\* line 160: self.previous_data = data
Store(t) ==
    /\ pc[t] = "store"
    /\ previous_data' = data[t]
    /\ pc' = [pc EXCEPT ![t] = "report"]
    /\ UNCHANGED <<sent, response_get, payload, data, outcome, content,
                   test_widget, contentLayout, scrollVars, lastSuccess,
                   last200Parsed, slept, pureVars>>

\* lines 163-220: the report is built (a KeyError or TypeError leaves the
\* method), then self.test_widget = self.method.get_widget(WIDGET_CODE)
Report(t) ==
    /\ pc[t] = "report"
    /\ IF ~ReportOk(data[t])
       THEN /\ Leave(t, AfterException(t), "none")
            /\ UNCHANGED test_widget
       ELSE \E w \in {"none", "widget"} :
               /\ test_widget' = w
               /\ IF w = "none"
                  THEN Leave(t, AfterReturn(t), "none")
                  ELSE /\ pc' = [pc EXCEPT ![t] = "layout"]
                       /\ content' = [content EXCEPT ![t] = BuildContent(data[t])]
                       /\ UNCHANGED <<response_get, payload, data, slept,
                                      outcome>>
    /\ UNCHANGED <<sent, previous_data, contentLayout,
                   scrollVars, lastSuccess, last200Parsed, pureVars>>

\* clear_existing_content, lines 268-274
clear_existing_content(layout) == <<>>

\* lines 222-229: the layout is looked up in self.test_widget, which is read
\* again here (None.findChild raises AttributeError when another execution
\* has set it to None since line 217), and cleared
Layout(t) ==
    /\ pc[t] = "layout"
    /\ IF test_widget # "widget"
       THEN /\ Leave(t, AfterException(t), "none")
            /\ UNCHANGED contentLayout
       ELSE \E found \in BOOLEAN :
               IF ~found
               THEN /\ Leave(t, AfterReturn(t), "none")
                    /\ UNCHANGED contentLayout
               ELSE /\ contentLayout' = clear_existing_content(contentLayout)
                    /\ pc' = [pc EXCEPT ![t] = "add"]
                    /\ UNCHANGED <<response_get, payload, data, content,
                                   slept, outcome>>
    /\ UNCHANGED <<sent, previous_data, test_widget,
                   scrollVars, lastSuccess, last200Parsed, pureVars>>

\* create_scroll_area, lines 243-266: a SmoothScrollArea around a label of
\* the content
create_scroll_area(text) == [content |-> text]

\* lines 231-234: content_layout.addWidget(scroll_area)
Add(t) ==
    /\ pc[t] = "add"
    /\ contentLayout' = Append(contentLayout, create_scroll_area(content[t]))
    /\ Leave(t, AfterReturn(t), "none")
    /\ UNCHANGED <<sent, previous_data, test_widget,
                   scrollVars, lastSuccess, last200Parsed, pureVars>>

-----------------------------------------------------------------------------
(* auto_update, lines 298-304, and execute, lines 314-315 *)

\* line 301: the polling thread calls update_widget_content
PollCall == pc["poll"] = "call" /\ StartFetch("poll")

\* line 304: time.sleep returns and the loop goes round
Wake ==
    /\ pc["poll"] = "sleep"
    /\ pc' = [pc EXCEPT !["poll"] = "call"]
    /\ UNCHANGED <<sent, response_get, payload, data, outcome, content,
                   previous_data, test_widget, contentLayout,
                   scrollVars, lastSuccess, last200Parsed, slept,
                   pureVars>>

\* execute: the host calls update_widget_content on its own thread
execute == pc["host"] = "idle" /\ StartFetch("host")

-----------------------------------------------------------------------------
(* auto_scroll, lines 276-293: the slot of the 30 ms timer *)

\* mutant: > in place of >=
NextScrollPosition_Gt(position, maximum) ==
    IF position > maximum THEN 0 ELSE position + 1

\* line 292
NextScrollPosition(position, maximum) ==
    IF position >= maximum THEN 0 ELSE position + 1

\* test_widget.findChild(SmoothScrollArea) finds a scroll area of the layout;
\* a SmoothScrollArea always has its vertical scroll bar (lines 48-49)
ScrollAreaFound == test_widget = "widget" /\ contentLayout # <<>>

\* lines 278-293.  Reading test_widget before update_widget_content has
\* assigned it raises AttributeError, which changes nothing either.  The
\* maximum of the scroll bar is what the toolkit's layout of the text and
\* of the widget gives at that moment; setValue (lines 31-37) starts the
\* animation of the bar towards scroll_position, which no code reads back.
auto_scroll ==
    /\ IF ScrollAreaFound
       THEN \E m \in 0..MaxMaximum :
               /\ max_value' = m
               /\ scroll_position' = NextScrollPosition(scroll_position, m)
       ELSE UNCHANGED scrollVars
    /\ UNCHANGED <<pc, sent, response_get, payload, data, outcome, content,
                   previous_data, test_widget, contentLayout, lastSuccess,
                   last200Parsed, slept, pureVars>>

-----------------------------------------------------------------------------

PollStep ==
    \/ PollCall
    \/ Wake
    \/ GetReturns("poll")
    \/ PostReturns("poll")
    \/ Store("poll")
    \/ Report("poll")
    \/ Layout("poll")
    \/ Add("poll")

HostStep ==
    \/ execute
    \/ GetReturns("host")
    \/ PostReturns("host")
    \/ Store("host")
    \/ Report("host")
    \/ Layout("host")
    \/ Add("host")

Next == PollStep \/ HostStep \/ auto_scroll

Spec == Init /\ [][Next]_vars

\* The two threads without the timer: auto_scroll reads and writes nothing
\* the loop of auto_update reads.  The polling thread is a thread of its own,
\* which the interpreter keeps scheduling, and every request is answered or
\* fails: weak fairness of its steps.
LiveNext == PollStep \/ HostStep

LiveSpec == Init /\ [][LiveNext]_vars /\ WF_vars(PollStep)

\* one update_widget_content at a time: the calls of a sequence of calls
Running == \E t \in Threads : InUpdate(t)

SeqNext ==
    \/ ~Running /\ PollCall
    \/ ~Running /\ execute
    \/ Wake
    \/ \E t \in Threads :
          \/ GetReturns(t)
          \/ PostReturns(t)
          \/ Store(t)
          \/ Report(t)
          \/ Layout(t)
          \/ Add(t)
    \/ auto_scroll

SeqSpec == Init /\ [][SeqNext]_vars

-----------------------------------------------------------------------------
(* The ID extraction and the report as functions of their input *)

MaxHomeworks == 2    \* homeworks of a course
MaxCourses == 2      \* courses of a GET response
MaxEntries == 3      \* entries of scoreRateVOList

SeqsUpTo(S, n) == UNION {[1..k -> S] : k \in 0..n}

Homeworks ==
    {[templateId |-> None, homeworkIds |-> <<"h1">>],
     [templateId |-> IntV(12), homeworkIds |-> <<"h2", "h3">>],
     [templateId |-> StrV("7"), homeworkIds |-> <<>>]}

HomeworkCourses == [homeworkVOList : SeqsUpTo(Homeworks, MaxHomeworks)]

ClassLists ==
    {<<>>, <<[classId |-> "c1"]>>, <<[classId |-> "c2"], [classId |-> "c1"]>>}

GetInputs ==
    {[data |-> d] :
        d \in [homeworkCourseVOList : SeqsUpTo(HomeworkCourses, MaxCourses),
               classVOList : ClassLists]}

RatesC == <<[courseId |-> StrV("m"), scoreRate |-> IntV(93)]>>

Entries ==
    {[classId |-> StrV("-1"), className |-> StrV("Grade"),
      courseScoreRate |-> RatesA],
     [classId |-> StrV("-1"), className |-> StrV("Grade'"),
      courseScoreRate |-> RatesC],
     [classId |-> StrV("1"), className |-> StrV("Class 1"),
      courseScoreRate |-> RatesB],
     [classId |-> IntV(-1), className |-> StrV("Class 2"),
      courseScoreRate |-> RatesA],
     [className |-> StrV("Class 3")]}

ReportInputs ==
    {[data |-> d] :
        d \in [courseVOList : {Courses},
               scoreRateVOList : SeqsUpTo(Entries, MaxEntries)]}

mainVars == <<pc, sent, response_get, payload, data, outcome, content,
              previous_data, test_widget, contentLayout, scroll_position,
              max_value, lastSuccess, last200Parsed, slept>>

PureInit(inputs) ==
    /\ MainInit
    /\ input \in inputs
    /\ output = NoValue
    /\ phase = "in"

\* lines 118-135 applied to the GET response
Extract ==
    /\ phase = "in"
    /\ GetBodyOk(input)
    /\ output' = Payload(input)
    /\ phase' = "out"
    /\ UNCHANGED <<input, mainVars>>

ExtractSpec == PureInit(GetInputs) /\ [][Extract]_vars

\* lines 162-213 applied to the POST response
Format ==
    /\ phase = "in"
    /\ ReportOk(input)
    /\ output' = [content |-> BuildContent(input)]
    /\ phase' = "out"
    /\ UNCHANGED <<input, mainVars>>

ReportSpec == PureInit(ReportInputs) /\ [][Format]_vars

-----------------------------------------------------------------------------
(* Properties *)

Rest(t) == IF t = "poll" THEN "sleep" ELSE "idle"

FetchPcs == {"get_wait", "post_wait"}

\* a stored result other than None and the empty document
NonEmptyResult(x) == x \notin {None, EmptyDict}

\* t's fetch_and_update_data ends in this step otherwise than by line 147
FetchFails(t) ==
    /\ pc[t] \in FetchPcs
    /\ pc'[t] \notin FetchPcs
    /\ outcome'[t] # "ok"

\* C1 as amended: a fetch that fails returns previous_data when previous_data
\* is truthy (a non-empty result) and raises, returning nothing, when it is
\* None or an empty (falsy) result; a fetch ends by line 147 only with the
\* parsed body of a POST answered 200.
C1_FallbackWhenTruthy ==
    [][\A t \in Threads :
          /\ FetchFails(t) =>
                IF NonEmptyResult(previous_data)
                THEN /\ pc'[t] = "store"
                     /\ outcome'[t] = "fallback"
                     /\ data'[t] = previous_data
                ELSE /\ pc'[t] = Rest(t)
                     /\ outcome'[t] = "raised"
                     /\ data'[t] = NoValue
          /\ (outcome[t] # "ok" /\ outcome'[t] = "ok") =>
                /\ pc[t] = "post_wait"
                /\ last200Parsed'
                /\ data'[t] = lastSuccess']_vars

\* C1 witness: a failed fetch has returned the stored result
C1_Witness ==
    \E t \in Threads :
        /\ pc[t] = "store"
        /\ outcome[t] = "fallback"
        /\ data[t] = previous_data
        /\ lastSuccess # Never

\* C1 as written: a failed fetch returns previous_data whenever a previous
\* result is stored (previous_data is not None), and raises only when none is.
C1_Original ==
    [][\A t \in Threads :
          FetchFails(t) =>
              IF previous_data # None
              THEN pc'[t] = "store" /\ data'[t] = previous_data
              ELSE pc'[t] = Rest(t)]_vars

\* the IDs of a GET response, stated on the flat list of its homeworks
RECURSIVE Concat(_, _)
Concat(f, n) == IF n = 0 THEN <<>> ELSE Concat(f, n - 1) \o f[n]

AllHomeworks(body) ==
    LET courses == body.data.homeworkCourseVOList
    IN  Concat([i \in 1..Len(courses) |-> courses[i].homeworkVOList],
               Len(courses))

HasTemplate(h) == h.templateId # None

ExpectedTemplateIds(body) ==
    LET with == SelectSeq(AllHomeworks(body), HasTemplate)
    IN  [i \in 1..Len(with) |-> Str(with[i].templateId)]

ExpectedHomeworkIds(body) ==
    LET all == AllHomeworks(body)
    IN  Concat([i \in 1..Len(all) |-> all[i].homeworkIds], Len(all))

ExpectedClassIds(body) ==
    [i \in 1..Len(body.data.classVOList) |-> body.data.classVOList[i].classId]

\* C2: a fetch sends GET, then at most one POST; the POST is out only when the
\* GET of the same fetch was answered 200 with a body whose IDs were
\* extracted, and carries exactly those IDs; a GET that fails sends no POST.
C2_PostAfterGet ==
    \A t \in Threads :
        /\ sent[t] \in {<<>>, <<"GET">>, <<"GET", "POST">>}
        /\ (pc[t] = "get_wait") => sent[t] = <<"GET">>
        /\ (pc[t] \notin FetchPcs) => sent[t] = <<>>
        /\ ("POST" \in {sent[t][i] : i \in 1..Len(sent[t])}) =>
              /\ pc[t] = "post_wait"
              /\ ~response_get[t].raised
              /\ response_get[t].status_code = 200
              /\ GetBodyOk(response_get[t].body)
              /\ payload[t].templateIds = ExpectedTemplateIds(response_get[t].body)
              /\ payload[t].homeworkIds = ExpectedHomeworkIds(response_get[t].body)
              /\ payload[t].classIds = ExpectedClassIds(response_get[t].body)

\* C2 witness: both threads have a POST out, each with the IDs of its own GET
C2_Witness ==
    /\ sent["poll"] = <<"GET", "POST">>
    /\ sent["host"] = <<"GET", "POST">>
    /\ response_get["poll"].body = GetBodyA
    /\ response_get["host"].body = GetBodyB
    /\ payload["poll"].templateIds = <<"12">>
    /\ payload["host"].homeworkIds = <<"h9">>

LastBoth200 == IF last200Parsed THEN lastSuccess ELSE Unparsable

C5_Original == Cardinality({t \in Threads : InUpdate(t)}) <= 1

\* the fetch of t raises in this step
FetchRaises(t) == pc[t] \in FetchPcs /\ pc'[t] = Rest(t)

\* t takes a step of its fetch: it sends the GET, or the GET or the POST is
\* answered and the fetch goes on or raises
FetchStep(t) ==
    /\ pc'[t] # pc[t]
    /\ pc[t] \in {"call", "idle"} \cup FetchPcs
    /\ pc'[t] \in FetchPcs \cup {Rest(t)}

\* C6: an update whose fetch raises (no usable previous result) raises before
\* it touches anything: no step of it, from the call to the raise, changes
\* the content layout, test_widget or previous_data.
C6_RaiseTouchesNothing ==
    [][\A t \in Threads :
          /\ FetchStep(t) =>
                UNCHANGED <<contentLayout, test_widget, previous_data>>
          /\ FetchRaises(t) => ~NonEmptyResult(previous_data)]_vars

\* C6 witness: the fetch of the polling thread has raised while the widget
\* shows a report
C6_Witness ==
    /\ pc["poll"] = "sleep"
    /\ outcome["poll"] = "raised"
    /\ contentLayout # <<>>
    /\ test_widget = "widget"

\* C10: every update that reaches the widget leaves exactly one scroll area
\* in contentLayout, the one of its report.
C10_Original ==
    [][\A t \in Threads :
          (pc[t] = "add" /\ pc'[t] # "add") =>
              contentLayout' = <<create_scroll_area(content[t])>>]_vars

\* C9: an auto_scroll step that finds a scroll bar sets scroll_position to 0
\* if it was at or above the maximum it read and otherwise adds 1, so that
\* 0 <= scroll_position <= maximum after it; a step that finds no widget or
\* no scroll area leaves scroll_position as it was.
C9_ScrollInRange ==
    [][auto_scroll =>
          IF ScrollAreaFound
          THEN /\ scroll_position' =
                     IF scroll_position >= max_value' THEN 0
                     ELSE scroll_position + 1
               /\ 0 <= scroll_position'
               /\ scroll_position' <= max_value'
          ELSE scroll_position' = scroll_position]_vars

\* C9 witness: scroll_position has been stepped up to the maximum read
C9_Witness == scroll_position > 0 /\ scroll_position = max_value

\* C4: the polling thread attempts an update at once, sleeps 1800 seconds
\* after every attempt, however it ended, and attempts again: its loop never
\* ends.
C4_PollsForever ==
    /\ pc["poll"] = "call" /\ slept = 0
    /\ [][pc["poll"] = "call" => pc'["poll"] \in {"call", "get_wait"}]_vars
    /\ [](pc["poll"] = "sleep" => slept = 1800)
    /\ [](pc["poll"] \in UpdatePcs ~> pc["poll"] = "sleep")
    /\ [](pc["poll"] = "sleep" ~> pc["poll"] = "get_wait")
    /\ []<>(pc["poll"] = "get_wait")

\* C4 witness: the loop has gone round after an attempt that raised
C4_Witness ==
    /\ pc["poll"] = "call"
    /\ outcome["poll"] = "raised"
    /\ slept = 1800

\* C8: templateIds is the in-order list of str(templateId) of the homeworks
\* whose templateId is not null, homeworkIds the in-order concatenation of
\* the homeworkIds of every homework (null templateId or not), classIds the
\* classId of every entry of classVOList in order.
C8_ExtractedIds ==
    phase = "out" =>
        /\ output.templateIds = ExpectedTemplateIds(input)
        /\ output.homeworkIds = ExpectedHomeworkIds(input)
        /\ output.classIds = ExpectedClassIds(input)
        /\ Len(output.templateIds) =
              Cardinality({i \in 1..Len(AllHomeworks(input)) :
                              AllHomeworks(input)[i].templateId # None})

\* C8 witness: two courses, the first homework with a null templateId
C8_Witness ==
    /\ phase = "out"
    /\ Len(input.data.homeworkCourseVOList) = 2
    /\ AllHomeworks(input) # <<>>
    /\ AllHomeworks(input)[1].templateId = None
    /\ output.templateIds = <<"12", "7">>
    /\ output.homeworkIds = <<"h1", "h2", "h3">>
    /\ output.classIds = <<"c2", "c1">>

IsGradeEntry(e) == Get(e, "classId", None) = StrV("-1")
IsClassEntry(e) == ~IsGradeEntry(e)

\* the single-subject lines an entry gives: one per record whose courseId is
\* not "-1", in order
EntrySubjectLines(e, mapping, prefix) ==
    LET rs == SelectSeq(Get(e, "courseScoreRate", <<>>),
                        LAMBDA r : Get(r, "courseId", None) # StrV("-1"))
    IN  [i \in 1..Len(rs) |->
            prefix \o <<CourseName(mapping, Get(rs[i], "courseId", None)),
                        COLON, RateStr(Get(rs[i], "scoreRate", None))>>]

\* C7: the report opens with the whole-grade section exactly when an entry
\* has classId "-1", built from the first such entry, and otherwise with the
\* line that no whole-grade data was found; then, after the classes header,
\* one class block per entry whose classId is not "-1", in input order; no
\* "-1" entry is a class block and no courseId "-1" record a subject line.
C7_ReportSections ==
    phase = "out" =>
        LET list == input.data.scoreRateVOList
            mapping == course_mapping(input.data.courseVOList)
            grades == SelectSeq(list, IsGradeEntry)
            classes == SelectSeq(list, IsClassEntry)
            rep == output.content
            gradeLines == IF grades = <<>> THEN <<>>
                          ELSE EntrySubjectLines(grades[1], mapping, <<>>)
            header == IF grades = <<>> THEN 2 ELSE 5 + Len(gradeLines)
            classRep == SubSeq(rep, header + 1, Len(rep))
        IN  /\ (grades # <<>>) <=> (rep[1] = <<GRADE_HEADER>>)
            /\ (grades = <<>>) <=> (rep[1] = <<NO_GRADE_DATA>>)
            /\ grades # <<>> =>
                  /\ rep[2] = <<FULL_RATE,
                                RateStr(get_score_rate(
                                    Get(grades[1], "courseScoreRate", <<>>),
                                    StrV("-1")))>>
                  /\ SubSeq(rep, 4, 3 + Len(gradeLines)) = gradeLines
            /\ rep[header] = <<CLASSES_HEADER>>
            /\ \A i \in 1..Len(rep) :
                  rep[i] \in {<<CLASSES_HEADER>>, <<GRADE_HEADER>>,
                              <<NO_GRADE_DATA>>} => i \in {1, header}
            /\ SelectSeq(classRep, LAMBDA l : Len(l) = 2 /\ l[1] = CLASS_LABEL)
               = [i \in 1..Len(classes) |->
                     <<CLASS_LABEL, Str(Get(classes[i], "className", None))>>]
            /\ SelectSeq(classRep, LAMBDA l : Len(l) > 2)
               = Concat([i \in 1..Len(classes) |->
                            EntrySubjectLines(classes[i], mapping, <<INDENT>>)],
                        Len(classes))
            /\ \A i \in 1..Len(rep) :
                  Len(rep[i]) > 2 =>
                      rep[i][Len(rep[i]) - 2] # CourseName(mapping, StrV("-1"))

\* C7 witness: a class, then two entries with classId "-1"; the section is
\* that of the first
C7_Witness ==
    /\ phase = "out"
    /\ Len(input.data.scoreRateVOList) = 3
    /\ ~IsGradeEntry(input.data.scoreRateVOList[1])
    /\ IsGradeEntry(input.data.scoreRateVOList[2])
    /\ IsGradeEntry(input.data.scoreRateVOList[3])
    /\ input.data.scoreRateVOList[2].courseScoreRate = RatesA
    /\ input.data.scoreRateVOList[3].courseScoreRate = RatesC
    /\ output.content[2] = <<FULL_RATE, "81.5%">>
    /\ output.content[4] = <<"Math", COLON, "-">>

=============================================================================
